---- MODULE Spec2Model ----
(***************************************************************************)
(* A model of the vilio text adapter (src/entryX.py) and of the UNITER     *)
(* joint encoder and its checkpoint loader                                 *)
(* (src/src/vilio/modeling_bertU.py).                                      *)
(*                                                                         *)
(* Strings are TLA+ strings; Python's str operations (startswith, slices,  *)
(* replace, split, join) are written out over them character by           *)
(* character.  Python lists are sequences, indexed from 1 here and from 0  *)
(* in the source.                                                          *)
(***************************************************************************)
EXTENDS Integers, Sequences, FiniteSets, TLC

VARIABLES
    \* ---- ModelX.forward / preprocess_bert / preprocess_roberta ----
    tr_name,          \* ModelX.tr_name: the transformer family
    max_seq_len,      \* ModelX.max_seq_len
    features,         \* the list preprocess_* is building
    example,          \* the locals of the last loop iteration
    pre_pc,           \* "loop" | "returned" | "AssertionError"
    \* ---- BertU.forward ----
    config,           \* BertU.config
    fwd_args,         \* the arguments of the call
    fwd_locals,       \* txt_emb, img_emb, extended_attention_mask,
                      \* embedding_output of the call
    fwd_calls,        \* the sub-computations the call has run, in order
    fwd_ret,          \* the returned pair
    fwd_pc,           \* "idle" | "call" | "returned" | an exception
    \* ---- UniterPreTrainedModel.from_pretrained ----
    num_pos,          \* args.num_pos
    has_bert,         \* hasattr(model, 'bert')
    state_dict_in,    \* the caller's mapping as it was at the call
    state_dict_arg,   \* the caller's mapping (the object itself)
    state_dict,       \* the copy the tree walk reads
    params,           \* the parameters of the target module tree
    start_prefix,
    stack,            \* the pending calls of the inner function load
    visited,          \* the prefixes load has been called with, in order
    missing_keys,
    unexpected_keys,
    error_msgs,
    load_pc,          \* "idle" | "Idle" | "KeysNormalized" | "KeysReconciled"
                      \* | "TreeWalked" | "Loaded" | "Failed"
    \* ---- ModelX.load ----
    mx_state_dict,    \* torch.load(path)
    mx_new_state_dict,
    mx_model,         \* self.model.state_dict()
    mx_info,          \* what load_state_dict reports
    mx_pc,            \* "idle" | "Idle" | "Stripped" | "Loaded" | "Failed"
    \* construction of a configuration and of a self-attention module
    cfg_arg,          \* vocab_size_or_config_json_file: its type, its file
    cfg_kwargs,       \* hidden_size and num_attention_heads as passed
    cfg_obj,          \* the UniterConfig object
    attn_obj,         \* the BertSelfAttention object
    cfg_pc            \* "idle" | "call" | "ConfigBuilt" | "Constructed" | exception

preVars == <<tr_name, max_seq_len, features, example, pre_pc>>
fwdVars == <<config, fwd_args, fwd_locals, fwd_calls, fwd_ret, fwd_pc>>
loadVars == <<num_pos, has_bert, state_dict_in, state_dict_arg, state_dict,
              params, start_prefix, stack, visited, missing_keys,
              unexpected_keys, error_msgs, load_pc>>
mxVars == <<mx_state_dict, mx_new_state_dict, mx_model, mx_info, mx_pc>>

cfgVars == <<cfg_arg, cfg_kwargs, cfg_obj, attn_obj, cfg_pc>>

vars == <<preVars, fwdVars, loadVars, mxVars, cfgVars>>

\* None, for an optional tensor or list (no tensor of the model is empty).
None == <<>>

\* What a call gives: the value it returns, or the exception it raises.
Ok(v) == [exc |-> "", val |-> v]
Raise(exc) == [exc |-> exc, val |-> None]
IsRaise(r) == r.exc # ""

(***************************************************************************)
(* Bounds of the model.                                                    *)
(***************************************************************************)
MaxSentLen == 5       \* characters of a raw sentence
MaxSeqLen == 8        \* largest max_seq_len tried
MaxBatch == 2         \* sentences (examples) per batch
MaxLt == 2            \* text positions per example
MaxLi == 1            \* image regions per example
MaxLo == 2            \* positions of a gather index
MaxKeys == 2          \* entries of a checkpoint
MaxWidth == 8         \* input width of a checkpoint's pos_linear.weight
MaxHidden == 6        \* largest hidden_size of a configuration
MaxHeads == 4         \* largest num_attention_heads of a configuration

(***************************************************************************)
(* Python helpers.                                                         *)
(***************************************************************************)
Min(a, b) == IF a < b THEN a ELSE b
Max(a, b) == IF a > b THEN a ELSE b

\* seq[:k] of Python: k < 0 counts from the end, and the result is clamped.
PySliceTo(seq, k) ==
    LET n == Len(seq)
        stop == IF k < 0 THEN Max(n + k, 0) ELSE Min(k, n)
    IN SubSeq(seq, 1, stop)

\* seq[k:] of Python, k >= 0.
PySliceFrom(seq, k) == SubSeq(seq, Min(k, Len(seq)) + 1, Len(seq))

\* [x] * n of Python: the empty list when n <= 0.
PyRepeat(x, n) == [i \in 1..Max(n, 0) |-> x]

\* str.split() with no argument: the maximal runs of non-blank characters.
RECURSIVE SplitFrom(_, _, _)
SplitFrom(s, i, cur) ==
    IF i > Len(s)
    THEN IF cur = "" THEN <<>> ELSE <<cur>>
    ELSE LET c == SubSeq(s, i, i) IN
         IF c = " "
         THEN (IF cur = "" THEN <<>> ELSE <<cur>>) \o SplitFrom(s, i + 1, "")
         ELSE SplitFrom(s, i + 1, cur \o c)

PySplit(s) == SplitFrom(s, 1, "")

\* sep.join(words)
RECURSIVE PyJoin(_, _)
PyJoin(sep, words) ==
    IF Len(words) = 0 THEN ""
    ELSE IF Len(words) = 1 THEN words[1]
    ELSE words[1] \o sep \o PyJoin(sep, Tail(words))

\* s.startswith(p)
StartsWith(s, p) == Len(s) >= Len(p) /\ SubSeq(s, 1, Len(p)) = p

\* p in s
Contains(s, p) ==
    \E i \in 1..(Len(s) - Len(p) + 1) : SubSeq(s, i, i + Len(p) - 1) = p

\* s.replace(old, new): every occurrence, leftmost first, not overlapping.
RECURSIVE ReplaceFrom(_, _, _, _)
ReplaceFrom(s, i, old, new) ==
    IF i > Len(s) THEN ""
    ELSE IF i + Len(old) - 1 <= Len(s) /\ SubSeq(s, i, i + Len(old) - 1) = old
    THEN new \o ReplaceFrom(s, i + Len(old), old, new)
    ELSE SubSeq(s, i, i) \o ReplaceFrom(s, i + 1, old, new)

PyReplace(s, old, new) == ReplaceFrom(s, 1, old, new)

\* s.split('.', 1)[0]
RECURSIVE UpToDot(_, _)
UpToDot(s, i) ==
    IF i > Len(s) \/ SubSeq(s, i, i) = "." THEN SubSeq(s, 1, i - 1)
    ELSE UpToDot(s, i + 1)

FirstSegment(s) == UpToDot(s, 1)

(***************************************************************************)
(* A Python dict is the sequence of its entries [k, v] in insertion order. *)
(***************************************************************************)
DictKeys(d) == [i \in DOMAIN d |-> d[i].k]
DictHas(d, key) == \E i \in DOMAIN d : d[i].k = key
DictGet(d, key) == d[CHOOSE i \in DOMAIN d : d[i].k = key].v
DictIsEntry(e, key) == e.k = key
\* d.pop(key): the mapping without the entry.
DictPop(d, key) ==
    LET keep(e) == ~DictIsEntry(e, key) IN SelectSeq(d, keep)
\* d[key] = v: in place for a key of the mapping, a new last entry otherwise.
DictSet(d, key, v) ==
    IF DictHas(d, key)
    THEN [i \in DOMAIN d |-> IF d[i].k = key THEN [k |-> key, v |-> v] ELSE d[i]]
    ELSE Append(d, [k |-> key, v |-> v])
SeqHas(seq, x) == \E i \in DOMAIN seq : seq[i] = x

(***************************************************************************)
(* The tokenizer (transformers' AutoTokenizer, an external collaborator).  *)
(* BERT and ALBERT tokenizers split on blanks; the RoBERTa tokenizer marks *)
(* with "G" a token that follows a blank.  convert_tokens_to_ids looks the *)
(* token up in the vocabulary: the special tokens have the ids of the      *)
(* tokenizer notes, an ordinary token an id of its own.                    *)
(***************************************************************************)
BertTokenize(sent) == PySplit(sent)

RECURSIVE RobertaTokenizeFrom(_, _, _, _)
RobertaTokenizeFrom(s, i, cur, marked) ==
    LET tok == IF marked THEN "G" \o cur ELSE cur IN
    IF i > Len(s)
    THEN IF cur = "" THEN <<>> ELSE <<tok>>
    ELSE LET c == SubSeq(s, i, i) IN
         IF c = " "
         THEN (IF cur = "" THEN <<>> ELSE <<tok>>)
                  \o RobertaTokenizeFrom(s, i + 1, "", TRUE)
         ELSE RobertaTokenizeFrom(s, i + 1, cur \o c, marked)

RobertaTokenize(sent) == RobertaTokenizeFrom(sent, 1, "", FALSE)

VocabId(tok) ==
    CASE tok = "[PAD]" -> 0
      [] tok = "[CLS]" -> 101
      [] tok = "[SEP]" -> 102
      [] OTHER -> IF SubSeq(tok, 1, 1) = "G" THEN 2000 + Len(tok)
                                             ELSE 1000 + Len(tok)

convert_tokens_to_ids(tokens) == [i \in 1..Len(tokens) |-> VocabId(tokens[i])]

(***************************************************************************)
(* preprocess_bert: one iteration of the loop over sents, up to the three  *)
(* assertions.                                                             *)
(***************************************************************************)
\* A truncation that leaves room for one marker only.
BertTruncateOffByOne(tokens, msl) ==
    IF Len(tokens) > msl - 2 THEN PySliceTo(tokens, msl - 1) ELSE tokens

BertTruncate(tokens, msl) ==
    IF Len(tokens) > msl - 2 THEN PySliceTo(tokens, msl - 2) ELSE tokens

\* A padding that is one position short.
BertPaddingShort(msl, input_ids) == PyRepeat(0, msl - Len(input_ids) - 1)

BertPadding(msl, input_ids) == PyRepeat(0, msl - Len(input_ids))

preprocess_bert_example(raw, msl) ==
    LET sent == PyJoin(" ", PySplit(raw))
        all_tokens == BertTokenize(sent)
        tokens == BertTruncate(all_tokens, msl)
        wrapped == <<"[CLS]">> \o tokens \o <<"[SEP]">>
        ids == convert_tokens_to_ids(wrapped)
        padding == BertPadding(msl, ids)
    IN [sent |-> sent, all_tokens |-> all_tokens, tokens |-> tokens,
        input_ids |-> ids \o padding,
        input_mask |-> PyRepeat(1, Len(ids)) \o padding,
        segment_ids |-> PyRepeat(0, Len(ids)) \o padding]

(***************************************************************************)
(* preprocess_roberta: one iteration of the loop over sents.               *)
(***************************************************************************)
\* A truncation that keeps the last tokens.
RobertaTruncateKeepsLast(tokens, msl) ==
    IF Len(tokens) > msl - 2
    THEN SubSeq(tokens, Len(tokens) - Max(msl - 2, 0) + 1, Len(tokens))
    ELSE tokens

RobertaTruncate(tokens, msl) ==
    IF Len(tokens) > msl - 2 THEN PySliceTo(tokens, msl - 2) ELSE tokens

\* A padding with the pad id of the BERT vocabulary.
RobertaPaddingZero(padding_length) == PyRepeat(0, padding_length)

\* [1] * padding_length
RobertaPadding(padding_length) == PyRepeat(1, padding_length)

preprocess_roberta_example(raw, msl) ==
    LET sent == " " \o PyJoin(" ", PySplit(raw))
        all_tokens == RobertaTokenize(sent)
        tokens == RobertaTruncate(all_tokens, msl)
        ids == <<0>> \o convert_tokens_to_ids(tokens) \o <<2>>
        padding_length == msl - Len(ids)
    IN [sent |-> sent, all_tokens |-> all_tokens, tokens |-> tokens,
        input_ids |-> IF padding_length > 0
                      THEN ids \o RobertaPadding(padding_length) ELSE ids,
        input_mask |-> IF padding_length > 0
                       THEN PyRepeat(1, Len(ids)) \o PyRepeat(0, padding_length)
                       ELSE PyRepeat(1, Len(ids)),
        segment_ids |-> IF padding_length > 0
                        THEN PyRepeat(0, Len(ids)) \o PyRepeat(0, padding_length)
                        ELSE PyRepeat(0, Len(ids))]

\* The three assert statements that end an iteration.
LengthAsserts(ex, msl) ==
    /\ Len(ex.input_ids) = msl
    /\ Len(ex.input_mask) = msl
    /\ Len(ex.segment_ids) = msl

InputFeatures(ex) ==
    [input_ids |-> ex.input_ids, input_mask |-> ex.input_mask,
     segment_ids |-> ex.segment_ids]

(***************************************************************************)
(* The inputs: raw sentences over a blank and one letter.                  *)
(***************************************************************************)
RECURSIVE StringsUpTo(_)
StringsUpTo(n) ==
    IF n = 0 THEN {""}
    ELSE LET shorter == StringsUpTo(n - 1)
         IN shorter \cup {s \o c : s \in shorter, c \in {" ", "a"}}

Sentences == StringsUpTo(MaxSentLen)

Families == {"bert", "albert", "roberta"}

NoExample == [sent |-> "", all_tokens |-> <<>>, tokens |-> <<>>,
              input_ids |-> <<>>, input_mask |-> <<>>, segment_ids |-> <<>>]

\* BertU.forward is not running.
NoLocals == [txt_emb |-> None, img_emb |-> None,
             extended_attention_mask |-> None, embedding_output |-> None]

FwdIdle ==
    /\ config = [hidden_size |-> 0, num_hidden_layers |-> 0,
                 type_vocab_size |-> 0]
    /\ fwd_args = [input_ids |-> None]
    /\ fwd_locals = NoLocals
    /\ fwd_calls = <<>>
    /\ fwd_ret = None
    /\ fwd_pc = "idle"

\* The text adapter is not running.
PreIdle ==
    /\ tr_name = ""
    /\ max_seq_len = 0
    /\ features = <<>>
    /\ example = NoExample
    /\ pre_pc = "idle"

\* No checkpoint load is in progress.
LoadIdle ==
    /\ num_pos = 0
    /\ has_bert = FALSE
    /\ state_dict_in = <<>>
    /\ state_dict_arg = <<>>
    /\ state_dict = <<>>
    /\ params = <<>>
    /\ start_prefix = ""
    /\ stack = <<>>
    /\ visited = <<>>
    /\ missing_keys = <<>>
    /\ unexpected_keys = <<>>
    /\ error_msgs = <<>>
    /\ load_pc = "idle"

NoInfo == [missing_keys |-> <<>>, unexpected_keys |-> <<>>, error_msgs |-> <<>>]

MxIdle ==
    /\ mx_state_dict = <<>>
    /\ mx_new_state_dict = <<>>
    /\ mx_model = <<>>
    /\ mx_info = NoInfo
    /\ mx_pc = "idle"

\* Nothing is being constructed.
NoConfig == [built |-> FALSE, hidden_size |-> 0, num_attention_heads |-> 0]
NoAttention == [built |-> FALSE, num_attention_heads |-> 0,
                attention_head_size |-> 0, all_head_size |-> 0]

CfgIdle ==
    /\ cfg_arg = [type |-> "", file |-> <<>>]
    /\ cfg_kwargs = [hidden_size |-> 0, num_attention_heads |-> 0]
    /\ cfg_obj = NoConfig
    /\ attn_obj = NoAttention
    /\ cfg_pc = "idle"

InitPre ==
    /\ FwdIdle
    /\ LoadIdle
    /\ MxIdle
    /\ CfgIdle
    /\ tr_name \in Families
    /\ max_seq_len \in 0..MaxSeqLen
    /\ features = <<>>
    /\ example = NoExample
    /\ pre_pc = "loop"

\* One iteration of a preprocess_* loop with its assertions and its append.
PreprocessStep(ex) ==
    /\ example' = ex
    /\ IF LengthAsserts(ex, max_seq_len)
       THEN /\ features' = Append(features, InputFeatures(ex))
            /\ pre_pc' = "loop"
       ELSE /\ features' = features
            /\ pre_pc' = "AssertionError"
    /\ UNCHANGED <<tr_name, max_seq_len>>
    /\ UNCHANGED <<fwdVars, loadVars, mxVars, cfgVars>>

\* ModelX.forward sends "bert..." and "albert..." to preprocess_bert.
PreprocessBert ==
    /\ pre_pc = "loop"
    /\ tr_name \in {"bert", "albert"}
    /\ Len(features) < MaxBatch
    /\ \E raw \in Sentences :
           PreprocessStep(preprocess_bert_example(raw, max_seq_len))

\* ModelX.forward sends "roberta..." to preprocess_roberta.
PreprocessRoberta ==
    /\ pre_pc = "loop"
    /\ tr_name = "roberta"
    /\ Len(features) < MaxBatch
    /\ \E raw \in Sentences :
           PreprocessStep(preprocess_roberta_example(raw, max_seq_len))

\* The loop is over: return features.
PreprocessReturn ==
    /\ pre_pc = "loop"
    /\ pre_pc' = "returned"
    /\ UNCHANGED <<tr_name, max_seq_len, features, example>>
    /\ UNCHANGED <<fwdVars, loadVars, mxVars, cfgVars>>

NextPre == PreprocessBert \/ PreprocessRoberta \/ PreprocessReturn

SpecPre == InitPre /\ [][NextPre]_vars

(***************************************************************************)
(* Claims about preprocess_bert and preprocess_roberta (under SpecPre).    *)
(***************************************************************************)
AllLengthsAre(msl) ==
    /\ pre_pc # "AssertionError"
    /\ example # NoExample =>
           /\ Len(example.input_ids) = msl
           /\ Len(example.input_mask) = msl
           /\ Len(example.segment_ids) = msl
    /\ \A i \in 1..Len(features) :
           /\ Len(features[i].input_ids) = msl
           /\ Len(features[i].input_mask) = msl
           /\ Len(features[i].segment_ids) = msl

C10_BertLayout ==
    LET n == Len(example.all_tokens) IN
    (tr_name \in {"bert", "albert"} /\ example # NoExample
         /\ n <= max_seq_len - 2) =>
        /\ DOMAIN example.input_ids = 1..max_seq_len
        /\ DOMAIN example.input_mask = 1..max_seq_len
        /\ DOMAIN example.segment_ids = 1..max_seq_len
        /\ \A i \in 1..max_seq_len :
               /\ example.input_ids[i] =
                      IF i = 1 THEN VocabId("[CLS]")
                      ELSE IF i <= n + 1 THEN VocabId(example.all_tokens[i - 1])
                      ELSE IF i = n + 2 THEN VocabId("[SEP]")
                      ELSE VocabId("[PAD]")
               /\ example.input_mask[i] = (IF i <= n + 2 THEN 1 ELSE 0)
               /\ example.segment_ids[i] = 0

\* The example of the specification: max_seq_len = 8 and three tokens.
C10_Witness ==
    /\ tr_name = "bert"
    /\ max_seq_len = 8
    /\ example.all_tokens = <<"a", "a", "a">>
    /\ example.input_ids = <<101, 1001, 1001, 1001, 102, 0, 0, 0>>
    /\ example.input_mask = <<1, 1, 1, 1, 1, 0, 0, 0>>
    /\ example.segment_ids = <<0, 0, 0, 0, 0, 0, 0, 0>>

\* C11: preprocess_roberta tokenizes the whitespace-normalized sentence
\* behind exactly one blank, and lays n <= max_seq_len - 2 tokens out as
\* id 0, the n token ids in order, id 2, then id 1; the mask is 1 on the
\* first n + 2 positions and 0 after; the segment ids are all 0.
C11_RobertaLayout ==
    LET n == Len(example.all_tokens) IN
    (tr_name = "roberta" /\ example # NoExample) =>
        /\ SubSeq(example.sent, 1, 1) = " "
        /\ PySliceFrom(example.sent, 1)
               = PyJoin(" ", PySplit(PySliceFrom(example.sent, 1)))
        /\ example.all_tokens = RobertaTokenize(example.sent)
        /\ n <= max_seq_len - 2 =>
               /\ DOMAIN example.input_ids = 1..max_seq_len
               /\ DOMAIN example.input_mask = 1..max_seq_len
               /\ DOMAIN example.segment_ids = 1..max_seq_len
               /\ \A i \in 1..max_seq_len :
                      /\ example.input_ids[i] =
                             IF i = 1 THEN 0
                             ELSE IF i <= n + 1
                                  THEN VocabId(example.all_tokens[i - 1])
                             ELSE IF i = n + 2 THEN 2
                             ELSE 1
                      /\ example.input_mask[i] = (IF i <= n + 2 THEN 1 ELSE 0)
                      /\ example.segment_ids[i] = 0

\* Two words under max_seq_len = 8, each token marked as following a blank.
C11_Witness ==
    /\ tr_name = "roberta"
    /\ max_seq_len = 8
    /\ example.sent = " a aa"
    /\ example.all_tokens = <<"Ga", "Gaa">>
    /\ example.input_ids = <<0, 2002, 2003, 2, 1, 1, 1, 1>>
    /\ example.input_mask = <<1, 1, 1, 1, 0, 0, 0, 0>>
    /\ example.segment_ids = <<0, 0, 0, 0, 0, 0, 0, 0>>

\* The ids of the start and end markers of a family.
StartId == IF tr_name = "roberta" THEN 0 ELSE VocabId("[CLS]")
EndId == IF tr_name = "roberta" THEN 2 ELSE VocabId("[SEP]")

\* The last sentence had more tokens than fit and became a full-length
\* example of its first max_seq_len - 2 tokens between the markers.
TruncatedToFit ==
    /\ pre_pc # "AssertionError"
    /\ Len(features) > 0
    /\ features[Len(features)] = InputFeatures(example)
    /\ example.tokens = SubSeq(example.all_tokens, 1, max_seq_len - 2)
    /\ example.input_ids
           = <<StartId>> \o convert_tokens_to_ids(example.tokens) \o <<EndId>>
    /\ Len(example.input_ids) = max_seq_len
    /\ example.input_mask = [i \in 1..max_seq_len |-> 1]

Overflows == example # NoExample /\ Len(example.all_tokens) > max_seq_len - 2

Vec(term) == [h \in 1..config.hidden_size |-> [of |-> term, h |-> h]]

\* nn.Embedding(config.type_vocab_size, hidden): row t exists for
\* 0 <= t < type_vocab_size.
TypeIdsValid(type_ids) ==
    \A b \in DOMAIN type_ids : \A i \in DOMAIN type_ids[b] :
        type_ids[b][i] \in 0..(config.type_vocab_size - 1)

\* UniterTextEmbeddings.forward with default position ids that count from 1.
UniterTextEmbeddings_forward_FromOne(input_ids, position_ids, token_type_ids) ==
    LET seq_length == Len(input_ids[1])
        pos == IF position_ids = None
               THEN [i \in 1..seq_length |-> i]
               ELSE position_ids
        types == IF token_type_ids = None
                 THEN [b \in DOMAIN input_ids |-> [i \in 1..seq_length |-> 0]]
                 ELSE token_type_ids
    IN IF ~TypeIdsValid(types) THEN Raise("IndexError")
       ELSE Ok([b \in DOMAIN input_ids |->
                   [i \in 1..seq_length |->
                       Vec([kind |-> "txt", word |-> input_ids[b][i],
                            position |-> pos[i], type |-> types[b][i]])]])

\* UniterTextEmbeddings.forward
UniterTextEmbeddings_forward(input_ids, position_ids, token_type_ids) ==
    LET seq_length == Len(input_ids[1])
        pos == IF position_ids = None
               THEN [i \in 1..seq_length |-> i - 1]
               ELSE position_ids
        types == IF token_type_ids = None
                 THEN [b \in DOMAIN input_ids |-> [i \in 1..seq_length |-> 0]]
                 ELSE token_type_ids
    IN IF ~TypeIdsValid(types) THEN Raise("IndexError")
       ELSE Ok([b \in DOMAIN input_ids |->
                   [i \in 1..seq_length |->
                       Vec([kind |-> "txt", word |-> input_ids[b][i],
                            position |-> pos[i], type |-> types[b][i]])]])

\* BertU._compute_txt_embeddings
compute_txt_embeddings(input_ids, position_ids, txt_type_ids) ==
    IF input_ids = None THEN Raise("AttributeError")
    ELSE UniterTextEmbeddings_forward(input_ids, position_ids, txt_type_ids)

\* BertU._compute_img_embeddings with UniterImageEmbeddings.forward
compute_img_embeddings(img_feat, img_pos_feat, img_type_ids) ==
    IF img_feat = None THEN Raise("TypeError")
    ELSE LET types == IF img_type_ids = None
                      THEN [b \in DOMAIN img_feat |->
                               [r \in DOMAIN img_feat[b] |-> 1]]
                      ELSE img_type_ids
         IN IF ~TypeIdsValid(types) THEN Raise("IndexError")
            ELSE Ok([b \in DOMAIN img_feat |->
                        [r \in DOMAIN img_feat[b] |->
                            Vec([kind |-> "img", feat |-> img_feat[b][r],
                                 box |-> img_pos_feat[b][r],
                                 type |-> types[b][r]])]])

\* gather_index.unsqueeze(-1).expand(-1, -1, hidden_size)
ExpandIndex(gather_index) ==
    [b \in DOMAIN gather_index |->
        [k \in DOMAIN gather_index[b] |->
            [h \in 1..config.hidden_size |-> gather_index[b][k]]]]

\* torch.cat([txt_emb, img_emb], dim=1) with the image sequence first.
TorchCatImageFirst(txt_emb, img_emb) ==
    [b \in DOMAIN txt_emb |-> img_emb[b] \o txt_emb[b]]

\* torch.cat([txt_emb, img_emb], dim=1)
TorchCat(txt_emb, img_emb) ==
    [b \in DOMAIN txt_emb |-> txt_emb[b] \o img_emb[b]]

\* torch.gather(input, dim=1, index):
\*   out[b][k][h] = input[b][index[b][k][h]][h]
TorchGather(input, index) ==
    IF \E b \in DOMAIN index : \E k \in DOMAIN index[b] :
           \E h \in DOMAIN index[b][k] :
               index[b][k][h] \notin 0..(Len(input[b]) - 1)
    THEN Raise("RuntimeError")
    ELSE Ok([b \in DOMAIN index |->
                [k \in DOMAIN index[b] |->
                    [h \in DOMAIN index[b][k] |->
                        input[b][index[b][k][h] + 1][h]]]])

\* BertU._compute_img_txt_embeddings: the locals and the result.
compute_img_txt_embeddings(a) ==
    LET txt == compute_txt_embeddings(a.input_ids, a.position_ids,
                                      a.txt_type_ids)
        img == compute_img_embeddings(a.img_feat, a.img_pos_feat,
                                      a.img_type_ids)
    IN IF IsRaise(txt)
       THEN [txt_emb |-> None, img_emb |-> None, out |-> txt,
             calls |-> <<"_compute_txt_embeddings">>]
       ELSE IF IsRaise(img)
       THEN [txt_emb |-> txt.val, img_emb |-> None, out |-> img,
             calls |-> <<"_compute_txt_embeddings", "_compute_img_embeddings">>]
       ELSE IF a.gather_index = None
       THEN [txt_emb |-> txt.val, img_emb |-> img.val,
             out |-> Raise("AttributeError"),
             calls |-> <<"_compute_txt_embeddings", "_compute_img_embeddings">>]
       ELSE [txt_emb |-> txt.val, img_emb |-> img.val,
             out |-> TorchGather(TorchCat(txt.val, img.val),
                                 ExpandIndex(a.gather_index)),
             calls |-> <<"_compute_txt_embeddings", "_compute_img_embeddings",
                         "gather">>]

\* The embedding layer of BertU.forward with the branches in another order:
\* the joint path is taken whenever a gather index is supplied.
EmbeddingLayerGatherFirst(a) ==
    IF a.gather_index # None
    THEN compute_img_txt_embeddings(a)
    ELSE IF a.input_ids = None
    THEN [txt_emb |-> None, img_emb |-> None,
          out |-> compute_img_embeddings(a.img_feat, a.img_pos_feat,
                                         a.img_type_ids),
          calls |-> <<"_compute_img_embeddings">>]
    ELSE [txt_emb |-> None, img_emb |-> None,
          out |-> compute_txt_embeddings(a.input_ids, a.position_ids,
                                         a.txt_type_ids),
          calls |-> <<"_compute_txt_embeddings">>]

\* The embedding layer of BertU.forward: the three modes.
EmbeddingLayer(a) ==
    IF a.input_ids = None
    THEN [txt_emb |-> None, img_emb |-> None,
          out |-> compute_img_embeddings(a.img_feat, a.img_pos_feat,
                                         a.img_type_ids),
          calls |-> <<"_compute_img_embeddings">>]
    ELSE IF a.img_feat = None
    THEN [txt_emb |-> None, img_emb |-> None,
          out |-> compute_txt_embeddings(a.input_ids, a.position_ids,
                                         a.txt_type_ids),
          calls |-> <<"_compute_txt_embeddings">>]
    ELSE compute_img_txt_embeddings(a)

\* A mask that penalizes the positions to attend to.
ExtendedAttentionMaskInverted(attention_mask) ==
    [b \in DOMAIN attention_mask |->
        [k \in DOMAIN attention_mask[b] |-> attention_mask[b][k] * (-10000)]]

\* extended_attention_mask: (1.0 - mask) * -10000.0, one value per example
\* and key position (the two unsqueezed axes broadcast over heads and
\* query positions).
ExtendedAttentionMask(attention_mask) ==
    [b \in DOMAIN attention_mask |->
        [k \in DOMAIN attention_mask[b] |->
            (1 - attention_mask[b][k]) * (-10000)]]

\* One BertLayer.  Its output at position i of example b is kept as the
\* name of that value, (layer n, example b, position i) of this call: what
\* it depends on (the layer's input and the mask) is fixed within a call.
BertLayer(n, hidden_states, attention_mask) ==
    [b \in DOMAIN hidden_states |->
        [i \in DOMAIN hidden_states[b] |->
            Vec([kind |-> "layer", n |-> n, b |-> b, i |-> i])]]

\* UniterEncoder.forward: the list all_encoder_layers.
RECURSIVE EncoderLayers(_, _, _)
EncoderLayers(n, hidden_states, attention_mask) ==
    IF n > config.num_hidden_layers THEN <<>>
    ELSE LET h == BertLayer(n, hidden_states, attention_mask)
         IN <<h>> \o EncoderLayers(n + 1, h, attention_mask)

UniterEncoder_forward(input_, attention_mask, output_all_encoded_layers) ==
    LET all == EncoderLayers(1, input_, attention_mask)
    IN IF output_all_encoded_layers THEN all
       ELSE <<IF Len(all) = 0 THEN input_ ELSE all[Len(all)]>>

\* BertPooler.forward: dense and tanh of hidden_states[:, 0].
BertPooler_forward(hidden_states) ==
    [b \in DOMAIN hidden_states |->
        Vec([kind |-> "pooler", first |-> hidden_states[b][1]])]

\* BertU.forward, the whole call.  With output_all_encoded_layers the
\* pooler is handed the Python list of all layers, and list[:, 0] raises
\* TypeError.
BertU_forward(a) ==
    LET mask == ExtendedAttentionMask(a.attention_mask)
        emb == EmbeddingLayer(a)
        loc == [txt_emb |-> emb.txt_emb, img_emb |-> emb.img_emb,
                extended_attention_mask |-> mask,
                embedding_output |-> emb.out.val]
    IN IF IsRaise(emb.out)
       THEN [pc |-> emb.out.exc, locals |-> loc, ret |-> None,
             calls |-> <<"extended_attention_mask">> \o emb.calls]
       ELSE LET layers == UniterEncoder_forward(emb.out.val, mask,
                              a.output_all_encoded_layers)
                calls == <<"extended_attention_mask">> \o emb.calls
                             \o <<"encoder", "pooler">>
            IN IF a.output_all_encoded_layers
               THEN [pc |-> "TypeError", locals |-> loc, ret |-> None,
                     calls |-> calls]
               ELSE [pc |-> "returned", locals |-> loc,
                     ret |-> <<layers[Len(layers)],
                               BertPooler_forward(layers[Len(layers)])>>,
                     calls |-> calls]

(***************************************************************************)
(* The calls of BertU.forward tried: a batch of B examples with Lt text    *)
(* positions and Li image regions each, either of them possibly absent,    *)
(* and a gather index of Lo positions.  Every text id, region feature and  *)
(* box is distinct, so that equal embeddings come from the same place.     *)
(***************************************************************************)
TextBatch(B, Lt) == [b \in 1..B |-> [i \in 1..Lt |-> 100 * b + i]]
RegionBatch(B, Li, what) ==
    [b \in 1..B |-> [r \in 1..Li |-> [what |-> what, b |-> b, r |-> r]]]
ConstBatch(B, L, v) == [b \in 1..B |-> [i \in 1..L |-> v]]

\* Example 1 has the index g; example b has it shifted by b - 1 (modulo the
\* length of the concatenation), so that no two examples share an index.
GatherBatch(B, g, total) ==
    [b \in 1..B |-> [k \in DOMAIN g |-> (g[k] + b - 1) % total]]

\* The positions of the sequence the encoder receives.
OutLen(Lt, Li, g) ==
    IF Lt > 0 /\ Li > 0 THEN (IF g = None THEN Lt + Li ELSE Len(g))
    ELSE IF Lt > 0 THEN Lt ELSE IF Li > 0 THEN Li ELSE 1

\* A mask whose last pad positions are 0.
MaskBatch(B, L, pad) ==
    [b \in 1..B |-> [k \in 1..L |-> IF k > L - pad THEN 0 ELSE 1]]

GatherRows(Lt, Li) ==
    UNION {[1..Lo -> 0..(Lt + Li - 1)] : Lo \in 1..MaxLo}

FwdArgs(B, Lt, Li, g, pos, tt, it, all, pad) ==
    [input_ids |-> IF Lt = 0 THEN None ELSE TextBatch(B, Lt),
     position_ids |-> IF pos THEN [i \in 1..Lt |-> Lt - i] ELSE None,
     img_feat |-> IF Li = 0 THEN None ELSE RegionBatch(B, Li, "feat"),
     img_pos_feat |-> IF Li = 0 THEN None ELSE RegionBatch(B, Li, "box"),
     attention_mask |-> MaskBatch(B, OutLen(Lt, Li, g), pad),
     gather_index |-> IF g = None THEN None ELSE GatherBatch(B, g, Lt + Li),
     output_all_encoded_layers |-> all,
     txt_type_ids |-> IF tt THEN ConstBatch(B, Lt, 1) ELSE None,
     img_type_ids |-> IF it THEN ConstBatch(B, Li, 0) ELSE None]

InitFwd ==
    /\ PreIdle
    /\ LoadIdle
    /\ MxIdle
    /\ CfgIdle
    /\ \E tvs \in {1, 2} :
           config = [hidden_size |-> 2, num_hidden_layers |-> 2,
                     type_vocab_size |-> tvs]
    /\ \E B \in 1..MaxBatch, Lt \in 0..MaxLt, Li \in 0..MaxLi,
          pos \in BOOLEAN, tt \in BOOLEAN, it \in BOOLEAN,
          all \in BOOLEAN, pad \in {0, 1} :
           /\ pos => Lt > 0
           /\ tt => Lt > 0
           /\ it => Li > 0
           /\ \/ fwd_args = FwdArgs(B, Lt, Li, None, pos, tt, it, all, pad)
              \/ /\ Lt + Li > 0
                 /\ \E g \in GatherRows(Lt, Li) :
                        fwd_args = FwdArgs(B, Lt, Li, g, pos, tt, it, all, pad)
    /\ fwd_locals = NoLocals
    /\ fwd_calls = <<>>
    /\ fwd_ret = None
    /\ fwd_pc = "call"

\* One call of BertU.forward, to its return or to the exception it raises.
Forward ==
    /\ fwd_pc = "call"
    /\ LET r == BertU_forward(fwd_args) IN
           /\ fwd_locals' = r.locals
           /\ fwd_calls' = r.calls
           /\ fwd_ret' = r.ret
           /\ fwd_pc' = r.pc
    /\ UNCHANGED <<config, fwd_args>>
    /\ UNCHANGED <<preVars, loadVars, mxVars, cfgVars>>

NextFwd == Forward

SpecFwd == InitFwd /\ [][NextFwd]_vars

(***************************************************************************)
(* Claims about BertU.forward (under SpecFwd).                             *)
(***************************************************************************)
Called(name) == \E i \in DOMAIN fwd_calls : fwd_calls[i] = name

\* The joint path ran to the end of the embedding layer.
JointEmbedded ==
    /\ fwd_pc # "call"
    /\ fwd_args.input_ids # None
    /\ fwd_args.img_feat # None
    /\ fwd_locals.embedding_output # None

\* C1: in joint mode the merged output O has the length of the gather index
\* G and O[k] is element G[k] of the text sequence T followed by the image
\* sequence I, for every example of the batch on its own.
C1_GatherCorrectness ==
    JointEmbedded =>
        LET T == fwd_locals.txt_emb
            I == fwd_locals.img_emb
            G == fwd_args.gather_index
            O == fwd_locals.embedding_output
        IN /\ DOMAIN O = DOMAIN G
           /\ \A b \in DOMAIN G :
                  /\ DOMAIN O[b] = 1..Len(G[b])
                  /\ \A k \in 1..Len(G[b]) :
                         O[b][k] = IF G[b][k] < Len(T[b])
                                   THEN T[b][G[b][k] + 1]
                                   ELSE I[b][G[b][k] - Len(T[b]) + 1]

\* A batch of two whose first example takes the image region first and the
\* first text position second, and whose second example has another index.
C1_Witness ==
    /\ JointEmbedded
    /\ fwd_pc = "returned"
    /\ Len(fwd_args.input_ids) = 2
    /\ Len(fwd_args.input_ids[1]) = 2
    /\ fwd_args.gather_index = <<<<2, 0>>, <<0, 1>>>>
    /\ fwd_locals.embedding_output[1][1] = fwd_locals.img_emb[1][1]
    /\ fwd_locals.embedding_output[1][2] = fwd_locals.txt_emb[1][1]

\* C8: without img_feat the embedding output is what _compute_txt_embeddings
\* gives for the same text input, and neither the image embedding nor the
\* gather runs; without input_ids it is what _compute_img_embeddings gives
\* and no text embedding runs; the gather runs only with both inputs.
C8_ModeEquivalence ==
    fwd_pc # "call" =>
        /\ (fwd_args.img_feat = None /\ fwd_args.input_ids # None) =>
               LET r == compute_txt_embeddings(fwd_args.input_ids,
                            fwd_args.position_ids, fwd_args.txt_type_ids)
               IN /\ fwd_locals.embedding_output = r.val
                  /\ IsRaise(r) <=> fwd_pc = "IndexError"
                  /\ ~Called("_compute_img_embeddings")
                  /\ ~Called("gather")
        /\ (fwd_args.input_ids = None /\ fwd_args.img_feat # None) =>
               LET r == compute_img_embeddings(fwd_args.img_feat,
                            fwd_args.img_pos_feat, fwd_args.img_type_ids)
               IN /\ fwd_locals.embedding_output = r.val
                  /\ IsRaise(r) <=> fwd_pc = "IndexError"
                  /\ ~Called("_compute_txt_embeddings")
                  /\ ~Called("gather")
        /\ Called("gather") =>
               (fwd_args.input_ids # None /\ fwd_args.img_feat # None)

\* A text-only call that was handed a gather index and returned.
C8_Witness ==
    /\ fwd_pc = "returned"
    /\ fwd_args.img_feat = None
    /\ fwd_args.input_ids # None
    /\ fwd_args.gather_index # None
    /\ fwd_locals.embedding_output # None
    /\ fwd_calls = <<"extended_attention_mask", "_compute_txt_embeddings",
                     "encoder", "pooler">>

\* The call got through its embedding layer.
Accepted == fwd_pc # "call" /\ fwd_locals.embedding_output # None

\* The hidden states of every encoder layer of the call.
AllLayers ==
    UniterEncoder_forward(fwd_locals.embedding_output,
                          fwd_locals.extended_attention_mask, TRUE)

\* C18: every accepted call returns the pair of the hidden states and the
\* pooled vector, which the pooler computes from the first position of the
\* last layer, with and without output_all_encoded_layers.
C18_ForwardReturnsPair ==
    Accepted =>
        /\ fwd_pc = "returned"
        /\ Len(fwd_ret) = 2
        /\ fwd_ret[1] = IF fwd_args.output_all_encoded_layers
                        THEN AllLayers ELSE AllLayers[Len(AllLayers)]
        /\ fwd_ret[2] = BertPooler_forward(AllLayers[Len(AllLayers)])

\* An accepted call with output_all_encoded_layers that ended in the pooler.
C18_Witness ==
    /\ Accepted
    /\ fwd_args.output_all_encoded_layers
    /\ fwd_pc = "TypeError"
    /\ fwd_ret = None
    /\ fwd_calls[Len(fwd_calls)] = "pooler"

\* C19: the extended attention mask is computed once, first, in every mode
\* and with or without gather index, and is 0 where the mask is 1 and
\* -10000 where the mask is 0, one value per example and key position.
C19_ExtendedAttentionMask ==
    fwd_pc # "call" =>
        /\ fwd_calls[1] = "extended_attention_mask"
        /\ \A i \in DOMAIN fwd_calls :
               fwd_calls[i] = "extended_attention_mask" => i = 1
        /\ DOMAIN fwd_locals.extended_attention_mask
               = DOMAIN fwd_args.attention_mask
        /\ \A b \in DOMAIN fwd_args.attention_mask :
               /\ DOMAIN fwd_locals.extended_attention_mask[b]
                      = DOMAIN fwd_args.attention_mask[b]
               /\ \A k \in DOMAIN fwd_args.attention_mask[b] :
                      fwd_locals.extended_attention_mask[b][k]
                          = IF fwd_args.attention_mask[b][k] = 1
                            THEN 0 ELSE -10000

\* A joint call with a gather index whose mask ends in a padded position.
C19_Witness ==
    /\ fwd_pc = "returned"
    /\ Called("gather")
    /\ fwd_args.attention_mask = <<<<1, 0>>, <<1, 0>>>>
    /\ fwd_locals.extended_attention_mask = <<<<0, -10000>>, <<0, -10000>>>>

\* What UniterTextEmbeddings.forward returned in this call.
TextEmbedded ==
    IF fwd_args.img_feat = None
    THEN fwd_locals.embedding_output ELSE fwd_locals.txt_emb

\* C20: without position_ids, position i (from 0) of every example is
\* embedded with position id i; without token type ids, every position with
\* type id 0; ids that are supplied are used as they are.
C20_TextEmbeddingDefaults ==
    (fwd_pc # "call" /\ fwd_args.input_ids # None /\ TextEmbedded # None) =>
        /\ DOMAIN TextEmbedded = DOMAIN fwd_args.input_ids
        /\ \A b \in DOMAIN fwd_args.input_ids :
               /\ DOMAIN TextEmbedded[b] = DOMAIN fwd_args.input_ids[b]
               /\ \A i \in DOMAIN fwd_args.input_ids[b] :
                      \A h \in 1..config.hidden_size :
                          LET of == TextEmbedded[b][i][h].of IN
                          /\ of.word = fwd_args.input_ids[b][i]
                          /\ of.position =
                                 IF fwd_args.position_ids = None THEN i - 1
                                 ELSE fwd_args.position_ids[i]
                          /\ of.type =
                                 IF fwd_args.txt_type_ids = None THEN 0
                                 ELSE fwd_args.txt_type_ids[b][i]

\* A text-only call of two examples and two positions without position and
\* type ids.
C20_Witness ==
    /\ fwd_pc = "returned"
    /\ fwd_args.img_feat = None
    /\ fwd_args.position_ids = None
    /\ fwd_args.txt_type_ids = None
    /\ Len(fwd_args.input_ids) = 2
    /\ Len(fwd_args.input_ids[2]) = 2
    /\ fwd_locals.embedding_output[2][2][1].of
           = [kind |-> "txt", word |-> fwd_args.input_ids[2][2],
              position |-> 1, type |-> 0]

\* A joint call without type ids, over.
JointDefaultTypes ==
    /\ fwd_pc # "call"
    /\ fwd_args.input_ids # None
    /\ fwd_args.img_feat # None
    /\ fwd_args.txt_type_ids = None
    /\ fwd_args.img_type_ids = None

\* C24: in a joint call without type ids every text position is embedded
\* with type id 0 and every image region with type id 1, and both are rows
\* of the token_type_embeddings table, for type_vocab_size 2 and 1.
C24_DefaultTypeIdsValid ==
    JointDefaultTypes =>
        /\ fwd_pc # "IndexError"
        /\ {0, 1} \subseteq 0..(config.type_vocab_size - 1)
        /\ fwd_locals.txt_emb # None
        /\ fwd_locals.img_emb # None
        /\ \A b \in DOMAIN fwd_locals.txt_emb :
               \A i \in DOMAIN fwd_locals.txt_emb[b] :
                   fwd_locals.txt_emb[b][i][1].of.type = 0
        /\ \A b \in DOMAIN fwd_locals.img_emb :
               \A r \in DOMAIN fwd_locals.img_emb[b] :
                   fwd_locals.img_emb[b][r][1].of.type = 1

\* A joint call without type ids on a table of one row: the text is
\* embedded and the lookup of the image type raises.
C24_Witness ==
    /\ JointDefaultTypes
    /\ config.type_vocab_size = 1
    /\ fwd_pc = "IndexError"
    /\ fwd_locals.txt_emb # None
    /\ fwd_locals.img_emb = None
    /\ fwd_calls = <<"extended_attention_mask", "_compute_txt_embeddings",
                     "_compute_img_embeddings">>

(***************************************************************************)
(* UniterPreTrainedModel.from_pretrained.  A tensor is [id, dims, cols]:   *)
(* id names the checkpoint entry its values come from, dims is its number  *)
(* of axes and cols its last axis (column j holds j), so that t[:, :n] is  *)
(* the first n columns.  A shape is <<dims, width of the last axis>>.      *)
(***************************************************************************)
Tensor(id, dims, width) == [id |-> id, dims |-> dims, cols |-> [j \in 1..width |-> j]]
Shape(t) == <<t.dims, Len(t.cols)>>

\* UniterImageEmbeddings.__init__: the input width of pos_linear.
PosLinearWidth == IF num_pos = 6 THEN 7 ELSE 4

\* The target module tree, cls(config): for a module path, its _modules in
\* registration order and its own parameters with their shapes.  A model
\* without attribute 'bert' is the encoder itself (embeddings, image
\* embeddings); a model with it wraps the encoder as 'bert' beside a head.
TargetModule(path) ==
    LET rel == IF has_bert /\ StartsWith(path, "bert.")
               THEN PySliceFrom(path, 5) ELSE path
    IN CASE has_bert /\ path = "" ->
                [children |-> <<"bert", "cls">>, params |-> <<>>]
         [] has_bert /\ path = "cls." ->
                [children |-> <<>>,
                 params |-> <<[name |-> "bias", shape |-> <<1, 2>>]>>]
         [] OTHER ->
            CASE rel = "" ->
                     [children |-> <<"embeddings", "img_embeddings">>,
                      params |-> <<>>]
              [] rel = "embeddings." ->
                     [children |-> <<"LayerNorm">>, params |-> <<>>]
              [] rel = "embeddings.LayerNorm." ->
                     [children |-> <<>>,
                      params |-> <<[name |-> "weight", shape |-> <<1, 2>>],
                                   [name |-> "bias", shape |-> <<1, 2>>]>>]
              [] rel = "img_embeddings." ->
                     [children |-> <<"pos_linear">>, params |-> <<>>]
              [] rel = "img_embeddings.pos_linear." ->
                     [children |-> <<>>,
                      params |-> <<[name |-> "weight",
                                    shape |-> <<2, PosLinearWidth>>],
                                   [name |-> "bias", shape |-> <<1, 2>>]>>]

\* Every module path of the target tree, in pre-order.
RECURSIVE PreOrder(_)
RECURSIVE PreOrderAll(_, _, _)
PreOrderAll(path, names, i) ==
    IF i > Len(names) THEN <<>>
    ELSE PreOrder(path \o names[i] \o ".") \o PreOrderAll(path, names, i + 1)
PreOrder(path) == <<path>> \o PreOrderAll(path, TargetModule(path).children, 1)

\* The keys of the target's parameters (model.state_dict().keys()).
RECURSIVE ParamKeysOf(_, _)
ParamKeysOf(paths, i) ==
    IF i > Len(paths) THEN <<>>
    ELSE LET ps == TargetModule(paths[i]).params
         IN [j \in DOMAIN ps |-> paths[i] \o ps[j].name]
                \o ParamKeysOf(paths, i + 1)
TargetKeys == ParamKeysOf(PreOrder(""), 1)

\* cls(config): every parameter freshly initialised.
FreshParams == [i \in DOMAIN TargetKeys |->
                   [k |-> TargetKeys[i], v |-> Tensor("init", 0, 0)]]

\* The renaming of one key (lines 365-371): each test reads key, and a later
\* test that matches overwrites new_key.  "" stands for None: both are falsy
\* at `if new_key`.
NewKey(key) ==
    LET k1 == IF Contains(key, "gamma")
              THEN PyReplace(key, "gamma", "weight") ELSE ""
        k2 == IF Contains(key, "beta")
              THEN PyReplace(key, "beta", "bias") ELSE k1
        k3 == IF Contains(key, "uniter.")
              THEN PyReplace(key, "uniter.", "") ELSE k2
    IN k3

\* old_keys and new_keys, zipped: the first loop over state_dict.keys().
RECURSIVE RenamePairs(_, _)
RenamePairs(keys, i) ==
    IF i > Len(keys) THEN <<>>
    ELSE (IF NewKey(keys[i]) # ""
          THEN <<[old |-> keys[i], new |-> NewKey(keys[i])]>> ELSE <<>>)
             \o RenamePairs(keys, i + 1)

\* The second loop: state_dict[new_key] = state_dict.pop(old_key).
RECURSIVE ApplyRenames(_, _, _)
ApplyRenames(d, pairs, i) ==
    IF i > Len(pairs) THEN d
    ELSE ApplyRenames(DictSet(DictPop(d, pairs[i].old), pairs[i].new,
                              DictGet(d, pairs[i].old)),
                      pairs, i + 1)

RenameKeys(d) == ApplyRenames(d, RenamePairs(DictKeys(d), 1), 1)

\* t[:, :n]
SliceCols(t, n) == [t EXCEPT !.cols = PySliceTo(@, n)]

\* Lines 383-386: the slice of the position projection.
ReconcileShapes(d) ==
    IF DictHas(d, "img_embeddings.pos_linear.weight")
    THEN DictSet(d, "img_embeddings.pos_linear.weight",
                 SliceCols(DictGet(d, "img_embeddings.pos_linear.weight"), 4))
    ELSE d

\* The root prefix chosen without looking at the model.
StartPrefixAnyModel(d) ==
    IF \E i \in DOMAIN d : StartsWith(d[i].k, "bert.") THEN "bert." ELSE ""

\* Lines 408-411.
StartPrefix(d) ==
    IF ~has_bert /\ \E i \in DOMAIN d : StartsWith(d[i].k, "bert.")
    THEN "bert." ELSE ""

\* torch's Module._load_from_state_dict with strict=True, the parameters:
\* a key of the mapping is copied into its parameter when the shapes agree
\* and reported in error_msgs when not; a parameter without key is missing.
RECURSIVE LoadParams(_, _, _, _, _)
LoadParams(path, prefix, ps, i, acc) ==
    IF i > Len(ps) THEN acc
    ELSE LET key == prefix \o ps[i].name IN
         LoadParams(path, prefix, ps, i + 1,
            IF DictHas(state_dict, key)
            THEN IF Shape(DictGet(state_dict, key)) # ps[i].shape
                 THEN [acc EXCEPT !.errors = Append(@, key)]
                 ELSE [acc EXCEPT !.params =
                          DictSet(@, path \o ps[i].name, DictGet(state_dict, key))]
            ELSE [acc EXCEPT !.missing = Append(@, key)])

\* ... and the keys it reports unexpected: those under prefix whose next
\* segment is neither a child module nor a parameter of this module.
UnexpectedAt(m, prefix) ==
    LET known == {m.children[i] : i \in DOMAIN m.children}
                     \cup {m.params[i].name : i \in DOMAIN m.params}
        odd(key) == /\ StartsWith(key, prefix)
                    /\ FirstSegment(PySliceFrom(key, Len(prefix))) \notin known
    IN SelectSeq(DictKeys(state_dict), odd)

\* The calls for the children, last child first.
ChildCallsReversed(path, prefix) ==
    LET names == TargetModule(path).children
        n == Len(names)
    IN [i \in DOMAIN names |->
           [module |-> path \o names[n + 1 - i] \o ".",
            prefix |-> prefix \o names[n + 1 - i] \o "."]]

\* A walk that does not descend.
ChildCallsNone(path, prefix) == <<>>

\* The calls load(child, prefix + name + '.') of one module, first child
\* first.
ChildCalls(path, prefix) ==
    LET names == TargetModule(path).children
    IN [i \in DOMAIN names |->
           [module |-> path \o names[i] \o ".",
            prefix |-> prefix \o names[i] \o "."]]

\* The outcome of a load with the raise moved to the missing keys.
OutcomeFailOnMissing == IF Len(missing_keys) > 0 THEN "Failed" ELSE "Loaded"

\* Lines 421-429: raise when there is an error message, return the model
\* otherwise.
Outcome == IF Len(error_msgs) > 0 THEN "Failed" ELSE "Loaded"

(***************************************************************************)
(* The checkpoints tried: up to MaxKeys entries, in any insertion order,   *)
(* of keys in the legacy and the current naming, under 'uniter.', under    *)
(* 'bert.' and outside of it.  A position projection has 3 to MaxWidth     *)
(* input columns and is always a matrix.                                   *)
(***************************************************************************)
VectorKeys == {"embeddings.LayerNorm.weight", "embeddings.LayerNorm.gamma",
               "embeddings.LayerNorm.beta",
               "uniter.embeddings.LayerNorm.gamma",
               "bert.embeddings.LayerNorm.weight", "cls.bias"}
MatrixKeys == {"img_embeddings.pos_linear.weight",
               "uniter.img_embeddings.pos_linear.weight",
               "bert.img_embeddings.pos_linear.weight"}

Entries == {[k |-> key, v |-> Tensor(key, 1, 2)] : key \in VectorKeys}
               \cup {[k |-> key, v |-> Tensor(key, 2, w)] :
                         key \in MatrixKeys, w \in 3..MaxWidth}

DictsOf(entries) ==
    UNION {{d \in [1..n -> entries] :
               \A i, j \in 1..n : i # j => d[i].k # d[j].k} : n \in 0..MaxKeys}

\* from_pretrained is called: the model is instantiated (line 360).
InitFromPretrained ==
    /\ num_pos \in {4, 6}
    /\ has_bert \in BOOLEAN
    /\ state_dict_in \in DictsOf(Entries)
    /\ state_dict_arg = state_dict_in
    /\ state_dict = <<>>
    /\ params = FreshParams
    /\ start_prefix = ""
    /\ stack = <<>>
    /\ visited = <<>>
    /\ missing_keys = <<>>
    /\ unexpected_keys = <<>>
    /\ error_msgs = <<>>
    /\ load_pc = "Idle"

\* Lines 362-376: the legacy renaming, in the caller's mapping.
Rename ==
    /\ load_pc = "Idle"
    /\ state_dict_arg' = RenameKeys(state_dict_arg)
    /\ load_pc' = "KeysNormalized"
    /\ UNCHANGED <<num_pos, has_bert, state_dict_in, state_dict, params,
                   start_prefix, stack, visited, missing_keys,
                   unexpected_keys, error_msgs>>

\* Lines 379-412: the slice, the copy of the mapping, the root prefix and
\* the call load(model, prefix=start_prefix).
Reconcile ==
    /\ load_pc = "KeysNormalized"
    /\ LET d == ReconcileShapes(state_dict_arg) IN
           /\ state_dict_arg' = d
           /\ state_dict' = d
           /\ start_prefix' = StartPrefix(d)
           /\ stack' = <<[module |-> "", prefix |-> StartPrefix(d)]>>
    /\ load_pc' = "KeysReconciled"
    /\ UNCHANGED <<num_pos, has_bert, state_dict_in, params, visited,
                   missing_keys, unexpected_keys, error_msgs>>

\* Lines 399-407: one call of the inner function load; the calls for the
\* children are pending on top of the stack.
LoadModule ==
    /\ load_pc = "KeysReconciled"
    /\ Len(stack) > 0
    /\ LET call == Head(stack)
           m == TargetModule(call.module)
           r == LoadParams(call.module, call.prefix, m.params, 1,
                           [params |-> params, missing |-> missing_keys,
                            errors |-> error_msgs])
           rest == ChildCalls(call.module, call.prefix) \o Tail(stack)
       IN /\ params' = r.params
          /\ missing_keys' = r.missing
          /\ error_msgs' = r.errors
          /\ unexpected_keys' = unexpected_keys \o UnexpectedAt(m, call.prefix)
          /\ visited' = Append(visited, call.prefix)
          /\ stack' = rest
          /\ load_pc' = IF Len(rest) = 0 THEN "TreeWalked" ELSE "KeysReconciled"
    /\ UNCHANGED <<num_pos, has_bert, state_dict_in, state_dict_arg,
                   state_dict, start_prefix>>

\* Lines 413-429: the reports, then the raise or the return.
Finish ==
    /\ load_pc = "TreeWalked"
    /\ load_pc' = Outcome
    /\ UNCHANGED <<num_pos, has_bert, state_dict_in, state_dict_arg,
                   state_dict, params, start_prefix, stack, visited,
                   missing_keys, unexpected_keys, error_msgs>>

FromPretrained == Rename \/ Reconcile \/ LoadModule \/ Finish

(***************************************************************************)
(* ModelX.load.                                                            *)
(***************************************************************************)
KnownPrefixes == <<"module.", "model.", "roberta.", "albert.">>

\* The chain with one character too many cut off behind 'model.'.
StripPrefixOneMore(key) ==
    IF StartsWith(key, "module.") THEN PySliceFrom(key, Len("module."))
    ELSE IF StartsWith(key, "model.") THEN PySliceFrom(key, 7)
    ELSE IF StartsWith(key, "roberta.") THEN PySliceFrom(key, 8)
    ELSE IF StartsWith(key, "albert.") THEN PySliceFrom(key, 7)
    ELSE key

\* The if/elif chain without its last elif.
StripPrefixNoAlbert(key) ==
    IF StartsWith(key, "module.") THEN PySliceFrom(key, Len("module."))
    ELSE IF StartsWith(key, "model.") THEN PySliceFrom(key, 6)
    ELSE IF StartsWith(key, "roberta.") THEN PySliceFrom(key, 8)
    ELSE key

\* The if/elif chain of the loop body: the key under which the value is
\* stored in new_state_dict.
StripPrefix(key) ==
    IF StartsWith(key, "module.") THEN PySliceFrom(key, Len("module."))
    ELSE IF StartsWith(key, "model.") THEN PySliceFrom(key, 6)
    ELSE IF StartsWith(key, "roberta.") THEN PySliceFrom(key, 8)
    ELSE IF StartsWith(key, "albert.") THEN PySliceFrom(key, 7)
    ELSE key

\* for key, value in state_dict.items(): new_state_dict[...] = value
RECURSIVE StripAll(_, _, _)
StripAll(d, i, acc) ==
    IF i > Len(d) THEN acc
    ELSE StripAll(d, i + 1, DictSet(acc, StripPrefix(d[i].k), d[i].v))

\* self.model as built by __init__: its parameters, freshly loaded from the
\* pretrained transformer.
MxModel == <<[k |-> "embeddings.weight", v |-> Tensor("init", 1, 2)],
             [k |-> "pooler.bias", v |-> Tensor("init", 1, 2)]>>

\* torch's Module.load_state_dict(state_dict, strict=False): every parameter
\* with a key of the mapping is copied when the shapes agree and reported in
\* error_msgs when not; missing and unexpected keys are only returned.
RECURSIVE LoadStateDictFrom(_, _, _, _)
LoadStateDictFrom(model, d, i, acc) ==
    IF i > Len(model) THEN acc
    ELSE LET key == model[i].k IN
         LoadStateDictFrom(model, d, i + 1,
            IF DictHas(d, key)
            THEN IF Shape(DictGet(d, key)) # Shape(model[i].v)
                 THEN [acc EXCEPT !.error_msgs = Append(@, key)]
                 ELSE [acc EXCEPT !.model = DictSet(@, key, DictGet(d, key))]
            ELSE [acc EXCEPT !.missing_keys = Append(@, key)])

load_state_dict(model, d) ==
    LET odd(key) == ~DictHas(model, key) IN
    LoadStateDictFrom(model, d, 1,
        [model |-> model, missing_keys |-> <<>>,
         unexpected_keys |-> SelectSeq(DictKeys(d), odd),
         error_msgs |-> <<>>])

\* The snapshots tried: keys under one wrapper prefix, under two, under none,
\* and keys the model does not have; vectors of the model's width or wider.
MxKeys == {"module.embeddings.weight", "model.embeddings.weight",
           "roberta.embeddings.weight", "albert.embeddings.weight",
           "embeddings.weight", "module.roberta.embeddings.weight",
           "module.module.embeddings.weight", "modelx.weight", "pooler.bias"}

MxEntries == {[k |-> key, v |-> Tensor(key, 1, w)] : key \in MxKeys, w \in {2, 3}}

\* load is called: torch.load(path) has returned.
InitModelXLoad ==
    /\ mx_state_dict \in DictsOf(MxEntries)
    /\ mx_new_state_dict = <<>>
    /\ mx_model = MxModel
    /\ mx_info = NoInfo
    /\ mx_pc = "Idle"

\* Lines 214-240: the loop that fills new_state_dict.
Strip ==
    /\ mx_pc = "Idle"
    /\ mx_new_state_dict' = StripAll(mx_state_dict, 1, <<>>)
    /\ mx_pc' = "Stripped"
    /\ UNCHANGED <<mx_state_dict, mx_model, mx_info>>

\* Lines 242-256: the printed differences change nothing; load_state_dict
\* raises RuntimeError when it has error messages.
LoadStateDict ==
    /\ mx_pc = "Stripped"
    /\ LET r == load_state_dict(mx_model, mx_new_state_dict) IN
           /\ mx_model' = r.model
           /\ mx_info' = [missing_keys |-> r.missing_keys,
                          unexpected_keys |-> r.unexpected_keys,
                          error_msgs |-> r.error_msgs]
           /\ mx_pc' = IF Len(r.error_msgs) > 0 THEN "Failed" ELSE "Loaded"
    /\ UNCHANGED <<mx_state_dict, mx_new_state_dict>>

ModelXLoad == Strip \/ LoadStateDict

InitLoad ==
    /\ PreIdle
    /\ FwdIdle
    /\ CfgIdle
    /\ \/ InitFromPretrained /\ MxIdle
       \/ InitModelXLoad /\ LoadIdle

NextLoad ==
    \/ FromPretrained /\ UNCHANGED <<preVars, fwdVars, mxVars, cfgVars>>
    \/ ModelXLoad /\ UNCHANGED <<preVars, fwdVars, loadVars, cfgVars>>

SpecLoad == InitLoad /\ [][NextLoad]_vars

(***************************************************************************)
(* The tree walk on its own: from_pretrained over checkpoints with a key   *)
(* in the current naming, one in the legacy naming, one under 'bert.', one *)
(* outside the encoder and a position projection of 4 columns (a shape     *)
(* error for the target of 7).  A call that has started runs on: nothing   *)
(* suspends it.                                                            *)
(***************************************************************************)
WalkKeys == {"embeddings.LayerNorm.weight", "embeddings.LayerNorm.gamma",
             "bert.embeddings.LayerNorm.weight", "cls.bias",
             "img_embeddings.pos_linear.weight"}

WalkEntries == {e \in Entries : e.k \in WalkKeys /\ Len(e.v.cols) \in {2, 4}}

InitWalk ==
    /\ PreIdle
    /\ FwdIdle
    /\ CfgIdle
    /\ MxIdle
    /\ num_pos \in {4, 6}
    /\ has_bert \in BOOLEAN
    /\ state_dict_in \in DictsOf(WalkEntries)
    /\ state_dict_arg = state_dict_in
    /\ state_dict = <<>>
    /\ params = FreshParams
    /\ start_prefix = ""
    /\ stack = <<>>
    /\ visited = <<>>
    /\ missing_keys = <<>>
    /\ unexpected_keys = <<>>
    /\ error_msgs = <<>>
    /\ load_pc = "Idle"

NextWalk == FromPretrained /\ UNCHANGED <<preVars, fwdVars, mxVars, cfgVars>>

SpecWalk == InitWalk /\ [][NextWalk]_vars /\ WF_vars(NextWalk)

(***************************************************************************)
(* Properties of the checkpoint loads, checked under SpecLoad.             *)
(***************************************************************************)
Walked == load_pc \in {"TreeWalked", "Loaded", "Failed"}
Reconciled == load_pc \in {"KeysReconciled", "TreeWalked", "Loaded", "Failed"}

\* The key a target parameter is looked up under.
SourceKeyOf(target_key) == start_prefix \o target_key

\* C2: once the walk has finished, every target parameter key is matched by
\* a source key or listed in missing_keys, and every source key is consumed
\* by a target parameter or listed in unexpected_keys.
C2_CoverageAccounting ==
    Walked =>
        /\ \A i \in DOMAIN TargetKeys :
               \/ DictHas(state_dict, SourceKeyOf(TargetKeys[i]))
               \/ SeqHas(missing_keys, SourceKeyOf(TargetKeys[i]))
        /\ \A j \in DOMAIN state_dict :
               \/ \E i \in DOMAIN TargetKeys :
                      state_dict[j].k = SourceKeyOf(TargetKeys[i])
               \/ SeqHas(unexpected_keys, state_dict[j].k)

\* A load that walked the tree under 'bert.' and returned, with a source key
\* outside 'bert.' in no report.
C2_Witness ==
    /\ load_pc = "Loaded"
    /\ start_prefix = "bert."
    /\ DictHas(state_dict, "bert.embeddings.LayerNorm.weight")
    /\ DictHas(state_dict, "cls.bias")
    /\ ~SeqHas(unexpected_keys, "cls.bias")

FullyRenamed(key) ==
    PyReplace(PyReplace(PyReplace(key, "gamma", "weight"), "beta", "bias"),
              "uniter.", "")

\* C4: after the renaming step every source key is found under its name with
\* 'gamma' replaced by 'weight', 'beta' by 'bias' and 'uniter.' removed, and
\* no key of the mapping contains 'gamma', 'beta' or 'uniter.'.
C4_LegacyRenaming ==
    load_pc = "KeysNormalized" =>
        /\ \A i \in DOMAIN state_dict_in :
               DictHas(state_dict_arg, FullyRenamed(state_dict_in[i].k))
        /\ \A i \in DOMAIN state_dict_arg :
               /\ ~Contains(state_dict_arg[i].k, "gamma")
               /\ ~Contains(state_dict_arg[i].k, "beta")
               /\ ~Contains(state_dict_arg[i].k, "uniter.")

\* A key under 'uniter.' that ends in 'gamma', after the renaming step.
C4_Witness ==
    /\ load_pc = "KeysNormalized"
    /\ DictHas(state_dict_in, "uniter.embeddings.LayerNorm.gamma")
    /\ DictHas(state_dict_arg, "embeddings.LayerNorm.gamma")

HasKnownPrefix(key) ==
    \E i \in DOMAIN KnownPrefixes : StartsWith(key, KnownPrefixes[i])

Stripped == mx_pc \in {"Stripped", "Loaded", "Failed"}

\* C5 as stated: after normalization no key of the normalized mapping begins
\* with 'module.', 'model.', 'roberta.' or 'albert.'.
C5_NoWrapperPrefixLeft ==
    Stripped =>
        \A i \in DOMAIN mx_new_state_dict :
            ~HasKnownPrefix(mx_new_state_dict[i].k)

\* C5: the one leading wrapper prefix of every source key is stripped: every
\* source key is found without its first known prefix, and every normalized
\* entry holds the value of a source key that is its key, or its key behind
\* one known prefix.
C5_OnePrefixStripped ==
    Stripped =>
        /\ \A i \in DOMAIN mx_state_dict :
               LET sk == mx_state_dict[i].k IN
               IF HasKnownPrefix(sk)
               THEN \E j \in DOMAIN KnownPrefixes :
                        /\ StartsWith(sk, KnownPrefixes[j])
                        /\ DictHas(mx_new_state_dict,
                                   PySliceFrom(sk, Len(KnownPrefixes[j])))
               ELSE DictHas(mx_new_state_dict, sk)
        /\ \A i \in DOMAIN mx_new_state_dict :
               LET e == mx_new_state_dict[i]
                   sk == e.v.id
               IN /\ DictHas(mx_state_dict, sk)
                  /\ e.v \in {mx_state_dict[j].v : j \in DOMAIN mx_state_dict}
                  /\ IF HasKnownPrefix(sk)
                     THEN \E j \in DOMAIN KnownPrefixes :
                              sk = KnownPrefixes[j] \o e.k
                     ELSE sk = e.k

\* A key under two wrapper prefixes, normalized.
C5_Witness ==
    /\ mx_pc = "Stripped"
    /\ DictHas(mx_state_dict, "module.roberta.embeddings.weight")
    /\ DictHas(mx_new_state_dict, "roberta.embeddings.weight")

\* The position projection of the checkpoint as it was passed in, and as it
\* goes to assignment.
PosLinearKey == "img_embeddings.pos_linear.weight"
PosLinearReconciled == DictGet(state_dict, PosLinearKey)
PosLinearSource == DictGet(state_dict_in, PosLinearReconciled.id)

\* C6: a source tensor wider than the input width W' of the target's
\* pos_linear goes to assignment as its first W' columns.
C6_TruncationBound ==
    Reconciled /\ DictHas(state_dict, PosLinearKey) =>
        (Len(PosLinearSource.cols) > PosLinearWidth =>
             PosLinearReconciled.cols
                 = SubSeq(PosLinearSource.cols, 1, PosLinearWidth))

\* A source tensor of 8 columns reconciled for a target of 7.
C6_Witness ==
    /\ Reconciled
    /\ num_pos = 6
    /\ DictHas(state_dict, PosLinearKey)
    /\ Len(PosLinearSource.cols) = 8
    /\ Len(PosLinearReconciled.cols) = 4

\* C7: a source tensor no wider than the input width of the target's
\* pos_linear goes to assignment unchanged.
C7_OnlyTruncatesOnExcess ==
    Reconciled /\ DictHas(state_dict, PosLinearKey) =>
        (Len(PosLinearSource.cols) <= PosLinearWidth =>
             PosLinearReconciled = PosLinearSource)

\* A source tensor of 7 columns reconciled for a target of 7.
C7_Witness ==
    /\ Reconciled
    /\ num_pos = 6
    /\ DictHas(state_dict, PosLinearKey)
    /\ Len(PosLinearSource.cols) = 7
    /\ Len(PosLinearReconciled.cols) = 4

Tensors(d) == {d[i].v : i \in DOMAIN d}

\* C13: key normalization maps the source keys 1:1: the normalized mapping
\* of ModelX.load and the renamed mapping of from_pretrained have as many
\* entries as their source mapping and hold every source tensor.
C13_KeysMappedOneToOne ==
    /\ Stripped =>
           /\ Len(mx_new_state_dict) = Len(mx_state_dict)
           /\ Tensors(mx_new_state_dict) = Tensors(mx_state_dict)
    /\ load_pc = "KeysNormalized" =>
           /\ Len(state_dict_arg) = Len(state_dict_in)
           /\ Tensors(state_dict_arg) = Tensors(state_dict_in)

\* Two source keys that differ by a wrapper prefix, normalized to one entry.
C13_Witness ==
    /\ mx_pc = "Stripped"
    /\ DictKeys(mx_state_dict) = <<"module.embeddings.weight", "embeddings.weight">>
    /\ DictKeys(mx_new_state_dict) = <<"embeddings.weight">>

\* C14: after from_pretrained returned or failed, the mapping the caller
\* passed in has the keys and tensors it had before the call.
C14_SourceMappingUnchanged ==
    load_pc \in {"Loaded", "Failed"} => state_dict_arg = state_dict_in

\* A load that returned, with the caller's legacy key renamed.
C14_Witness ==
    /\ load_pc = "Loaded"
    /\ DictKeys(state_dict_in) = <<"embeddings.LayerNorm.gamma">>
    /\ DictKeys(state_dict_arg) = <<"embeddings.LayerNorm.weight">>

PhaseRank(pc) ==
    CASE pc = "Idle" -> 0
      [] pc = "KeysNormalized" -> 1
      [] pc = "KeysReconciled" -> 2
      [] pc = "TreeWalked" -> 3
      [] pc \in {"Loaded", "Failed"} -> 4

\* No tensor of the caller's mapping is sliced yet.
Unsliced == Tensors(state_dict_arg) \subseteq Tensors(state_dict_in)

\* One step of a load: within the walk one more module is visited, and
\* otherwise the next phase is entered: the slice is not made before the
\* renaming is over, no module is visited before the slice is over, and the
\* outcome is what error_msgs holds once every module is visited.
PhaseStep ==
    \/ /\ load_pc = "KeysReconciled"
       /\ load_pc' \in {"KeysReconciled", "TreeWalked"}
       /\ Len(visited') = Len(visited) + 1
       /\ load_pc' = "TreeWalked" <=> Len(visited') = Len(PreOrder(""))
    \/ /\ load_pc # "KeysReconciled"
       /\ PhaseRank(load_pc') = PhaseRank(load_pc) + 1
       /\ load_pc' = "KeysNormalized" => Unsliced' /\ Len(visited') = 0
       /\ load_pc' = "KeysReconciled" => Unsliced /\ Len(visited') = 0
       /\ load_pc' \in {"Loaded", "Failed"} =>
              /\ Len(visited) = Len(PreOrder(""))
              /\ UNCHANGED <<visited, error_msgs, params>>

C16_PrefixRoundTrip ==
    Stripped =>
        /\ \A j \in DOMAIN mx_new_state_dict :
               LET k == mx_new_state_dict[j].v.id
                   s == mx_new_state_dict[j].k
               IN \A q \in DOMAIN KnownPrefixes :
                      /\ StartsWith(k, KnownPrefixes[q]) => KnownPrefixes[q] \o s = k
                      /\ ~HasKnownPrefix(k) => s = k
        /\ \A i \in DOMAIN mx_state_dict :
               LET k == mx_state_dict[i].k
               IN \E j \in DOMAIN mx_new_state_dict :
                      \/ mx_new_state_dict[j].k = k /\ ~HasKnownPrefix(k)
                      \/ \E q \in DOMAIN KnownPrefixes :
                             KnownPrefixes[q] \o mx_new_state_dict[j].k = k

\* A key under 'model.' and a key that only begins with 'model', normalized.
C16_Witness ==
    /\ mx_pc = "Stripped"
    /\ DictKeys(mx_state_dict) = <<"model.embeddings.weight", "modelx.weight">>
    /\ DictKeys(mx_new_state_dict) = <<"embeddings.weight", "modelx.weight">>

\* The key an entry has after the renaming loop (lines 365-376): new_key
\* when it is set, the key itself otherwise.
RenamedKey(key) == IF NewKey(key) # "" THEN NewKey(key) ELSE key

\* C17: the legacy renaming is idempotent: renaming a renamed key changes
\* nothing, and the renaming loop run over the renamed mapping leaves it as
\* it is.
C17_RenameIdempotent ==
    load_pc = "KeysNormalized" =>
        /\ \A i \in DOMAIN state_dict_in :
               RenamedKey(RenamedKey(state_dict_in[i].k))
                   = RenamedKey(state_dict_in[i].k)
        /\ RenameKeys(state_dict_arg) = state_dict_arg

\* A renamed mapping that a second run of the loop renames again.
C17_Witness ==
    /\ load_pc = "KeysNormalized"
    /\ DictKeys(state_dict_in) = <<"uniter.embeddings.LayerNorm.gamma">>
    /\ DictKeys(state_dict_arg) = <<"embeddings.LayerNorm.gamma">>
    /\ DictKeys(RenameKeys(state_dict_arg)) = <<"embeddings.LayerNorm.weight">>

(***************************************************************************)
(* UniterConfig.__init__ and BertSelfAttention.__init__.  The first        *)
(* argument is kept as the name of its type and, for a path, what the file *)
(* holds: <<>> when it cannot be read, <<hidden_size, num_attention_heads>>*)
(* of its JSON object otherwise.                                           *)
(***************************************************************************)
\* isinstance(x, str) and isinstance(x, int); bool is a subclass of int.
IsInstanceStr(type) == type = "str"
IsInstanceInt(type) == type \in {"int", "bool"}

UniterConfig_init(arg, kwargs) ==
    IF IsInstanceStr(arg.type)
    THEN IF arg.file = <<>> THEN Raise("FileNotFoundError")
         ELSE Ok([built |-> TRUE, hidden_size |-> arg.file[1],
                  num_attention_heads |-> arg.file[2]])
    ELSE IF IsInstanceInt(arg.type)
    THEN Ok([built |-> TRUE, hidden_size |-> kwargs.hidden_size,
             num_attention_heads |-> kwargs.num_attention_heads])
    ELSE Raise("ValueError")

\* The test with its operands the other way round.
NotMultipleSwapped(hidden_size, num_attention_heads) ==
    num_attention_heads % hidden_size # 0

\* config.hidden_size % config.num_attention_heads != 0
NotMultiple(hidden_size, num_attention_heads) ==
    hidden_size % num_attention_heads # 0

\* BertSelfAttention.__init__ up to the sizes of the heads; the modulo by
\* zero raises before the test is made.
BertSelfAttention_init(c) ==
    IF c.num_attention_heads = 0 THEN Raise("ZeroDivisionError")
    ELSE IF NotMultiple(c.hidden_size, c.num_attention_heads)
    THEN Raise("ValueError")
    ELSE Ok([built |-> TRUE,
             num_attention_heads |-> c.num_attention_heads,
             attention_head_size |-> c.hidden_size \div c.num_attention_heads,
             all_head_size |-> c.num_attention_heads
                 * (c.hidden_size \div c.num_attention_heads)])

ArgTypes == {"int", "bool", "str", "float", "NoneType", "dict"}

\* The defaults of the keyword arguments.
DefaultKwargs == [hidden_size |-> 768, num_attention_heads |-> 12]

InitCfg ==
    /\ PreIdle
    /\ FwdIdle
    /\ LoadIdle
    /\ MxIdle
    /\ \E type \in ArgTypes, hs \in 1..MaxHidden, heads \in 0..MaxHeads :
           \/ /\ ~IsInstanceStr(type)
              /\ cfg_arg = [type |-> type, file |-> <<>>]
              /\ cfg_kwargs = [hidden_size |-> hs, num_attention_heads |-> heads]
           \/ /\ IsInstanceStr(type)
              /\ cfg_arg \in {[type |-> type, file |-> <<>>],
                              [type |-> type, file |-> <<hs, heads>>]}
              /\ cfg_kwargs = DefaultKwargs
    /\ cfg_obj = NoConfig
    /\ attn_obj = NoAttention
    /\ cfg_pc = "call"

\* UniterConfig(vocab_size_or_config_json_file, ...)
ConstructConfig ==
    /\ cfg_pc = "call"
    /\ LET r == UniterConfig_init(cfg_arg, cfg_kwargs) IN
           IF IsRaise(r)
           THEN cfg_pc' = r.exc /\ cfg_obj' = cfg_obj
           ELSE cfg_pc' = "ConfigBuilt" /\ cfg_obj' = r.val
    /\ UNCHANGED <<cfg_arg, cfg_kwargs, attn_obj>>
    /\ UNCHANGED <<preVars, fwdVars, loadVars, mxVars>>

\* BertSelfAttention(config), as the model's constructor reaches it.
ConstructSelfAttention ==
    /\ cfg_pc = "ConfigBuilt"
    /\ LET r == BertSelfAttention_init(cfg_obj) IN
           IF IsRaise(r)
           THEN cfg_pc' = r.exc /\ attn_obj' = attn_obj
           ELSE cfg_pc' = "Constructed" /\ attn_obj' = r.val
    /\ UNCHANGED <<cfg_arg, cfg_kwargs, cfg_obj>>
    /\ UNCHANGED <<preVars, fwdVars, loadVars, mxVars>>

NextCfg == ConstructConfig \/ ConstructSelfAttention

SpecCfg == InitCfg /\ [][NextCfg]_vars

(***************************************************************************)
(* Properties of the constructors, checked under SpecCfg.                  *)
(***************************************************************************)
\* d divides n
Divides(d, n) == \E q \in 0..n : q * d = n

\* UniterConfig.__init__ is over, BertSelfAttention.__init__ is over.
ConfigDone == cfg_pc \notin {"idle", "call"}
AttentionDone == cfg_obj.built /\ cfg_pc # "ConfigBuilt"

\* The first argument is an integer or the path of a readable file.
ValidSource ==
    \/ IsInstanceInt(cfg_arg.type)
    \/ IsInstanceStr(cfg_arg.type) /\ cfg_arg.file # <<>>

\* UniterConfig raises ValueError, without an object, exactly for a first
\* argument that is neither int nor str, and never for a valid one.
ConfigSourceChecked ==
    ConfigDone =>
        /\ (~IsInstanceInt(cfg_arg.type) /\ ~IsInstanceStr(cfg_arg.type))
               <=> (cfg_pc = "ValueError" /\ ~cfg_obj.built)
        /\ ValidSource <=> cfg_obj.built

\* BertSelfAttention raises ValueError, without an object, when hidden_size
\* is not a multiple of num_attention_heads, and is constructed otherwise.
HeadsChecked ==
    AttentionDone =>
        IF Divides(cfg_obj.num_attention_heads, cfg_obj.hidden_size)
        THEN /\ cfg_pc = "Constructed"
             /\ attn_obj.built
             /\ attn_obj.all_head_size = cfg_obj.hidden_size
        ELSE /\ cfg_pc = "ValueError"
             /\ ~attn_obj.built

\* C21 as stated: ValueError for a first argument that is neither int nor
\* str and for a hidden_size that num_attention_heads does not divide, no
\* object in either case, and no exception for a valid configuration.
C21_ConfigErrorsAnyHeads == ConfigSourceChecked /\ HeadsChecked

\* C21 as amended: as stated, for every num_attention_heads other than 0.
C21_ConfigErrors ==
    /\ ConfigSourceChecked
    /\ cfg_obj.num_attention_heads # 0 => HeadsChecked

\* A configuration read from a file whose 6 hidden units 4 heads do not
\* divide.
C21_Witness ==
    /\ cfg_arg = [type |-> "str", file |-> <<6, 4>>]
    /\ cfg_obj = [built |-> TRUE, hidden_size |-> 6, num_attention_heads |-> 4]
    /\ cfg_pc = "ValueError"
    /\ ~attn_obj.built

(***************************************************************************)
(* Properties of the tree walk, checked under SpecWalk.                    *)
(***************************************************************************)
IsPrefixOf(a, b) == Len(a) <= Len(b) /\ SubSeq(b, 1, Len(a)) = a

\* The dotted path of every module followed by '.' ('' for the root), in
\* pre-order; and the same behind the prefix of the root.
DottedPaths == PreOrder("")
WalkPrefixes == [i \in DOMAIN DottedPaths |-> start_prefix \o DottedPaths[i]]

\* The modules visited so far are the first ones of order, each once, and
\* all of them when the walk is over.
WalkFollows(order) ==
    Reconciled =>
        /\ IsPrefixOf(visited, order)
        /\ \A i, j \in DOMAIN visited : visited[i] = visited[j] => i = j
        /\ Walked => visited = order

\* The three shared lists only grow.
ListsGrow ==
    /\ IsPrefixOf(missing_keys, missing_keys')
    /\ IsPrefixOf(unexpected_keys, unexpected_keys')
    /\ IsPrefixOf(error_msgs, error_msgs')

WalkTerminates == (load_pc = "KeysReconciled") ~> (load_pc = "TreeWalked")

\* C22 as stated: the modules are visited in pre-order, each once and with
\* its dotted path followed by '.' as prefix; the walk terminates and the
\* shared lists only grow.
C22_TreeWalkDottedPaths ==
    /\ []WalkFollows(DottedPaths)
    /\ [][ListsGrow]_loadVars
    /\ WalkTerminates

\* C22 as amended: the modules are visited in pre-order, each once and with
\* the prefix of the root followed by its dotted path and '.'; the walk
\* terminates and the shared lists only grow.
C22_TreeWalk ==
    /\ []WalkFollows(WalkPrefixes)
    /\ [][ListsGrow]_loadVars
    /\ WalkTerminates

\* The walk of a model with the encoder under 'bert' and a head, over, with
\* keys missing.
C22_Witness ==
    /\ load_pc = "TreeWalked"
    /\ has_bert
    /\ visited = <<"", "bert.", "bert.embeddings.", "bert.embeddings.LayerNorm.",
                   "bert.img_embeddings.", "bert.img_embeddings.pos_linear.",
                   "cls.">>
    /\ Len(missing_keys) > 0

(***************************************************************************)
(* Properties of the root prefix, checked under SpecLoad.                  *)
(***************************************************************************)
\* The parameter was assigned from the checkpoint.
Assigned(param) == param.v.id # "init"

\* C23: the walk starts with prefix 'bert.' exactly when the model has no
\* attribute 'bert' and a source key starts with 'bert.', and with ''
\* otherwise; under 'bert.' a parameter p is assigned only the tensor of
\* the source key 'bert.' + p, and no tensor of a key outside 'bert.'.
C23_RootPrefix ==
    Reconciled =>
        /\ start_prefix = "bert." <=>
               (~has_bert /\ \E j \in DOMAIN state_dict :
                                 StartsWith(state_dict[j].k, "bert."))
        /\ start_prefix \in {"", "bert."}
        /\ Len(visited) > 0 => visited[1] = start_prefix
        /\ start_prefix = "bert." =>
               /\ \A i \in DOMAIN params :
                      Assigned(params[i]) =>
                          /\ DictHas(state_dict, "bert." \o params[i].k)
                          /\ params[i].v
                                 = DictGet(state_dict, "bert." \o params[i].k)
               /\ \A j \in DOMAIN state_dict :
                      ~StartsWith(state_dict[j].k, "bert.") =>
                          \A i \in DOMAIN params :
                              params[i].v # state_dict[j].v

\* A returned load under 'bert.': the parameter has the tensor of the key
\* under 'bert.', not that of the key of its own name.
C23_Witness ==
    /\ load_pc = "Loaded"
    /\ ~has_bert
    /\ start_prefix = "bert."
    /\ DictKeys(state_dict) = <<"embeddings.LayerNorm.weight",
                                "bert.embeddings.LayerNorm.weight">>
    /\ DictGet(params, "embeddings.LayerNorm.weight").id
           = "bert.embeddings.LayerNorm.weight"

====
